---- MODULE Spec2Model ----
(***************************************************************************)
(* A model of build.py: the ZombieBuilder pipeline (dependency check,      *)
(* environment staging, source customisation, obfuscation with its manual  *)
(* fallback, compilation, metadata, cleanup) and the entry point main().   *)
(*                                                                         *)
(* The file system is a set of directories and a map from file paths to    *)
(* contents.  A path is a sequence of names relative to the base           *)
(* directory (the working directory at construction), so <<>> is the base  *)
(* directory itself.  Every stage is one action; what the environment      *)
(* decides (tool exit codes, I/O errors, what a tool leaves on disk) is    *)
(* drawn with \E inside the action.                                        *)
(***************************************************************************)
EXTENDS Integers, Sequences, FiniteSets, TLC

VARIABLES
    fs,        \* the file system: [dirs, files]
    b,         \* the ZombieBuilder object (self.*), NoBuilder before __init__
    pc,        \* position of the process: start, the stage about to run, returned, exited
    ran,       \* history: the stages build() has entered, in order
    res,       \* what build() returned: [done, success, hasMeta, meta]
    fs0,       \* history: the file system when build() was entered
    cwd,       \* the process working directory
    went,      \* history: the directories os.chdir has entered
    host,      \* the host the builder runs on: "posix" or "nt"
    argv,      \* the parsed command line (parse_arguments)
    fell,      \* history: how often the obfuscation stage entered the manual fallback
    prim,      \* history: what the primary obfuscation path did: none, ok, failed
    fb,        \* history: what the manual fallback did: none, ok, failed
    faults,    \* history: the stages among metadata and cleanup that raised inside
    upxq,      \* history: the UPX query of the dependency check: unasked, found, missing
    toolq,     \* history: the tool version query that failed: none, pyarmor, pyinstaller
    descr,     \* the build descriptor the compilation stage generated last
    out,       \* what main() printed, in order
    exit       \* the exit status of the process, -1 while it runs

vars == <<fs, b, pc, ran, res, fs0, cwd, host, argv, fell, prim, fb, faults, upxq, toolq, went, descr, out, exit>>

----------------------------------------------------------------------------
(* Bounds of the model *)

MaxPayloadLen == 2
MaxTextLen == 2

----------------------------------------------------------------------------
(* Module constants *)

SOURCE_FILE == "zombie.py"
DOS_MODULE_FILE == "dos_module.py"
BUILD_DIR == "build"

Platforms == {"windows", "linux", "macos"}
Levels == {"basic", "medium", "advanced"}
Stages == <<"deps", "prepare", "modify", "obfuscate", "compile", "metadata", "cleanup">>

----------------------------------------------------------------------------
(* Paths and the file system *)

BaseDir == <<>>

Join(d, name) == Append(d, name)

Parent(p) == SubSeq(p, 1, Len(p) - 1)

BaseName(p) == p[Len(p)]

IsPrefix(d, p) == Len(d) <= Len(p) /\ SubSeq(p, 1, Len(d)) = d

Ancestors(p) == {SubSeq(p, 1, n) : n \in 0..Len(p)}

IsFile(f, p) == p \in DOMAIN f.files

IsDir(f, p) == p \in f.dirs

Exists(f, p) == IsFile(f, p) \/ IsDir(f, p)

ListDir(f, d) == {BaseName(p) : p \in {q \in (DOMAIN f.files) \cup f.dirs : Len(q) = Len(d) + 1 /\ IsPrefix(d, q)}}

ListFiles(f, d) == {BaseName(p) : p \in {q \in DOMAIN f.files : Len(q) = Len(d) + 1 /\ IsPrefix(d, q)}}

\* os.makedirs(p, exist_ok=True): raises when a component is a regular file
CanMakeDirs(f, p) == \A a \in Ancestors(p) : ~IsFile(f, a)

MakeDirs(f, p) == [f EXCEPT !.dirs = @ \cup Ancestors(p)]

\* open(p, 'w') / the destination of shutil.copy2: the parent must be a directory
CanWrite(f, p) == IsDir(f, Parent(p)) /\ ~IsDir(f, p)

PutFile(f, p, c) == [f EXCEPT !.files = [q \in (DOMAIN @) \cup {p} |-> IF q = p THEN c ELSE @[q]]]

\* shutil.rmtree(d, ignore_errors=True)
RmTree(f, d) ==
    [dirs |-> {p \in f.dirs : ~IsPrefix(d, p)},
     files |-> [p \in {q \in DOMAIN f.files : ~IsPrefix(d, q)} |-> f.files[p]]]

RemoveFile(f, p) == [f EXCEPT !.files = [q \in (DOMAIN @) \ {p} |-> @[q]]]

----------------------------------------------------------------------------
(* File contents.  A content records who wrote it (an input of the build,  *)
(* a build identifier, or an external tool), the marker lines the source   *)
(* customiser looks for, and the bytes on disk apart from those markers.   *)

NoMarks ==
    [imp |-> FALSE, server |-> "none", zid |-> "none", checkin |-> 0, poll |-> 0,
     main |-> FALSE, persist |-> "none", payimp |-> FALSE]

Content(by, kind, marks, bytes) == [by |-> by, kind |-> kind, marks |-> marks, bytes |-> bytes]

InputContent(marks, bytes) == Content("input", "input", marks, bytes)

\* zombie.py as shipped: every marker line the customiser looks for
FullMarks ==
    [imp |-> TRUE, server |-> "default", zid |-> "expr", checkin |-> 300, poll |-> 30,
     main |-> TRUE, persist |-> "none", payimp |-> FALSE]

\* the agent sources the model starts from: as shipped, or without any marker line
SourceVariants == {FullMarks, NoMarks}

RECURSIVE SeqsUpTo(_, _)
SeqsUpTo(S, n) ==
    IF n = 0 THEN {<<>>}
    ELSE LET shorter == SeqsUpTo(S, n - 1)
         IN shorter \cup {Append(q, x) : q \in shorter, x \in S}

PayloadByteValues == {0, 255}

PayloadContents == SeqsUpTo(PayloadByteValues, MaxPayloadLen)

DefaultText == <<97, 10>>

----------------------------------------------------------------------------
(* base64.b64encode: three bytes to four sextets, 64 standing for '='      *)

\* variant of B64Encode: an encoder that drops the final partial group's padding
RECURSIVE B64EncodeUnpadded(_)
B64EncodeUnpadded(bs) ==
    IF Len(bs) = 0 THEN <<>>
    ELSE IF Len(bs) = 1 THEN
        <<bs[1] \div 4, (bs[1] % 4) * 16>>
    ELSE IF Len(bs) = 2 THEN
        <<bs[1] \div 4, (bs[1] % 4) * 16 + (bs[2] \div 16), (bs[2] % 16) * 4>>
    ELSE
        <<bs[1] \div 4, (bs[1] % 4) * 16 + (bs[2] \div 16),
          (bs[2] % 16) * 4 + (bs[3] \div 64), bs[3] % 64>>
        \o B64EncodeUnpadded(SubSeq(bs, 4, Len(bs)))

RECURSIVE B64Encode(_)
B64Encode(bs) ==
    IF Len(bs) = 0 THEN <<>>
    ELSE IF Len(bs) = 1 THEN
        <<bs[1] \div 4, (bs[1] % 4) * 16, 64, 64>>
    ELSE IF Len(bs) = 2 THEN
        <<bs[1] \div 4, (bs[1] % 4) * 16 + (bs[2] \div 16), (bs[2] % 16) * 4, 64>>
    ELSE
        <<bs[1] \div 4, (bs[1] % 4) * 16 + (bs[2] \div 16),
          (bs[2] % 16) * 4 + (bs[3] \div 64), bs[3] % 64>>
        \o B64Encode(SubSeq(bs, 4, Len(bs)))

\* base64.b64decode, as the synthesized payload module applies it: four
\* sextets to three bytes, padding allowed only in the last group
BadBytes == [ok |-> FALSE, bytes |-> <<>>]

B64Prepend(bs, r) == IF r.ok THEN [ok |-> TRUE, bytes |-> bs \o r.bytes] ELSE BadBytes

RECURSIVE B64Decode(_)
B64Decode(ss) ==
    IF ss = <<>> THEN [ok |-> TRUE, bytes |-> <<>>]
    ELSE IF Len(ss) < 4 \/ ss[1] = 64 \/ ss[2] = 64 THEN BadBytes
    ELSE IF ss[3] = 64 THEN
        IF ss[4] = 64 /\ Len(ss) = 4
        THEN [ok |-> TRUE, bytes |-> <<ss[1] * 4 + (ss[2] \div 16)>>]
        ELSE BadBytes
    ELSE IF ss[4] = 64 THEN
        IF Len(ss) = 4
        THEN [ok |-> TRUE, bytes |-> <<ss[1] * 4 + (ss[2] \div 16), (ss[2] % 16) * 16 + (ss[3] \div 4)>>]
        ELSE BadBytes
    ELSE B64Prepend(<<ss[1] * 4 + (ss[2] \div 16), (ss[2] % 16) * 16 + (ss[3] \div 4),
                      (ss[3] % 4) * 64 + ss[4]>>,
                    B64Decode(SubSeq(ss, 5, Len(ss))))

----------------------------------------------------------------------------
(* A stage runs a sequence of file operations inside one try block.  The   *)
(* run state s carries the file system so far, whether an exception has    *)
(* been raised, the number of operations attempted, and fa, the operation  *)
(* at which the environment raises an I/O error (0: at none).              *)

Begin(f, fa) == [fs |-> f, ok |-> TRUE, n |-> 0, fa |-> fa]

Do(s, can, f2) ==
    IF ~s.ok THEN s
    ELSE IF s.n + 1 = s.fa \/ ~can THEN [s EXCEPT !.ok = FALSE, !.n = @ + 1]
    ELSE [s EXCEPT !.fs = f2, !.n = @ + 1]

MakeDirsS(s, p) == Do(s, CanMakeDirs(s.fs, p), MakeDirs(s.fs, p))

CopyS(s, src, dst) ==
    Do(s, IsFile(s.fs, src) /\ CanWrite(s.fs, dst),
       IF IsFile(s.fs, src) THEN PutFile(s.fs, dst, s.fs.files[src]) ELSE s.fs)

WriteS(s, p, c) == Do(s, CanWrite(s.fs, p), PutFile(s.fs, p, c))

ReadS(s, p) == Do(s, IsFile(s.fs, p), s.fs)

RmTreeS(s, d) == IF ~s.ok THEN s ELSE [s EXCEPT !.fs = RmTree(s.fs, d)]

Raise(s) == [s EXCEPT !.ok = FALSE]

\* os.listdir(d)
ListS(s, d) == Do(s, IsDir(s.fs, d), s.fs)

\* if not os.path.exists(p): return False
RequireS(s, p) == IF s.ok /\ ~Exists(s.fs, p) THEN Raise(s) ELSE s

\* variant of CopyPreferS: a copy that took only what the tool had emitted
CopyWhenEmittedS(s, src, other, dst) ==
    IF Exists(s.fs, src) THEN CopyS(s, src, dst) ELSE s

\* copy src to dst if src exists, and other to dst if not
CopyPreferS(s, src, other, dst) ==
    IF Exists(s.fs, src) THEN CopyS(s, src, dst) ELSE CopyS(s, other, dst)

\* where an I/O error can strike: at none (0), or at one of the operations a run
\* without an I/O error performs
FaultPoints(s) == 0..s.n

----------------------------------------------------------------------------
(* ZombieBuilder.__init__ *)

NoPayloadData == [present |-> FALSE, b64 |-> <<>>]

NoBuilder == [platform |-> "none"]

BuildIds == {"zombie_0a"}
Timestamps == {"20260101000000"}
OutputDirs == {<<"dist">>, <<BUILD_DIR, "out">>}

determine_platform(requested, h) ==
    IF requested # "current" THEN requested
    ELSE IF h = "nt" THEN "windows"
    ELSE "linux"

get_file_extension(platform) ==
    IF platform = "windows" THEN ".exe"
    ELSE IF platform = "macos" THEN ".app"
    ELSE ""

NewBuilder(args, h, id, ts) ==
    [platform |-> determine_platform(args.platform, h),
     server_url |-> args.server,
     obfuscation_level |-> args.obfuscation,
     icon_path |-> args.icon,
     payload_path |-> args.payload,
     payload_delay |-> args.payload_delay,
     payload_technique |-> args.payload_technique,
     use_upx |-> args.upx,
     debug |-> args.debug,
     output_dir |-> args.output,
     build_id |-> id,
     build_timestamp |-> ts,
     payload_data |-> NoPayloadData]

build_dir == <<BUILD_DIR>>
prep_dir == <<BUILD_DIR, "prep">>
obfuscate_dir == <<BUILD_DIR, "obfuscate">>
compile_dir == <<BUILD_DIR, "compile">>
source_file_path == <<SOURCE_FILE>>
dos_module_path == <<DOS_MODULE_FILE>>
payload_module == Join(prep_dir, "payload_module.py")
modified_source(x) == Join(prep_dir, x.build_id \o ".py")
obfuscated_file(x) == Join(obfuscate_dir, x.build_id \o "_obfuscated.py")
\* variant of executable_name: a name that carried the build identifier
executable_name_with_id(x) ==
    x.build_id \o "_" \o x.platform \o "_" \o x.build_timestamp \o get_file_extension(x.platform)

executable_name(x) == "zombie_" \o x.platform \o "_" \o x.build_timestamp \o get_file_extension(x.platform)
final_executable(x) == Join(x.output_dir, executable_name(x))
metadata_file(x) == Join(x.output_dir, x.build_id \o "_metadata.json")

\* the truth value Python gives self.payload_data: None and '' are false
HasPayloadData(x) == x.payload_data.present /\ x.payload_data.b64 # <<>>


\* the command line the other command lines of the model vary
BaseArgs ==
    [platform |-> "linux", server |-> "http://203.0.113.5:8080", obfuscation |-> "medium",
     icon |-> "", payload |-> "", payload_delay |-> 30, payload_technique |-> "direct",
     upx |-> FALSE, debug |-> FALSE, output |-> <<"dist">>]

NoRecord ==
    [keys |-> {}, build_id |-> "", timestamp |-> "", platform |-> "", server_url |-> "",
     obfuscation_level |-> "", executable |-> "", zombie_id |-> "",
     payload |-> [source |-> "", size |-> 0, technique |-> "", delay |-> 0]]

NoResult == [done |-> FALSE, success |-> FALSE, hasMeta |-> FALSE, keys |-> {}, meta |-> NoRecord]

Construct ==
    /\ pc = "start"
    /\ \E id \in BuildIds, ts \in Timestamps :
          b' = NewBuilder(argv, host, id, ts)
    /\ pc' = "deps"
    /\ fs0' = fs
    /\ UNCHANGED <<fs, ran, res, cwd, host, argv, fell, prim, fb, faults, upxq, toolq, went, descr, out, exit>>

----------------------------------------------------------------------------
(* Text-mode file I/O: open(p, 'r') and open(p, 'w') with the defaults.    *)
(* A posix host decodes UTF-8 and writes "\n" as it is; an nt host uses    *)
(* the cp1252 code page and writes "\n" as "\r\n".  Reading translates     *)
(* "\r\n" and "\r" to "\n" on every host.  A text is a sequence of code    *)
(* points; the model's texts hold no code point above 0x7FF.               *)

BadText == [ok |-> FALSE, text |-> <<>>]

RECURSIVE Utf8Decode(_)
Utf8Decode(bs) ==
    IF bs = <<>> THEN [ok |-> TRUE, text |-> <<>>]
    ELSE IF bs[1] < 128 THEN
        LET r == Utf8Decode(Tail(bs))
        IN IF r.ok THEN [ok |-> TRUE, text |-> <<bs[1]>> \o r.text] ELSE BadText
    ELSE IF bs[1] >= 194 /\ bs[1] <= 223 /\ Len(bs) >= 2 /\ bs[2] >= 128 /\ bs[2] <= 191 THEN
        LET r == Utf8Decode(SubSeq(bs, 3, Len(bs)))
        IN IF r.ok THEN [ok |-> TRUE, text |-> <<(bs[1] - 192) * 64 + (bs[2] - 128)>> \o r.text]
           ELSE BadText
    ELSE BadText

RECURSIVE Utf8Encode(_)
Utf8Encode(cs) ==
    IF cs = <<>> THEN <<>>
    ELSE IF cs[1] < 128 THEN <<cs[1]>> \o Utf8Encode(Tail(cs))
    ELSE <<192 + (cs[1] \div 64), 128 + (cs[1] % 64)>> \o Utf8Encode(Tail(cs))

\* cp1252 maps the bytes the model uses (ASCII and 0xA0..0xFF) to the same code point
Cp1252Decode(bs) == [ok |-> \A i \in 1..Len(bs) : bs[i] < 128 \/ bs[i] >= 160, text |-> bs]

Cp1252Encode(cs) == [ok |-> \A i \in 1..Len(cs) : cs[i] < 128 \/ (cs[i] >= 160 /\ cs[i] < 256), bytes |-> cs]

RECURSIVE UniversalNewlines(_)
UniversalNewlines(cs) ==
    IF cs = <<>> THEN <<>>
    ELSE IF cs[1] = 13 /\ Len(cs) >= 2 /\ cs[2] = 10 THEN <<10>> \o UniversalNewlines(SubSeq(cs, 3, Len(cs)))
    ELSE IF cs[1] = 13 THEN <<10>> \o UniversalNewlines(Tail(cs))
    ELSE <<cs[1]>> \o UniversalNewlines(Tail(cs))

RECURSIVE WriteNewlines(_, _)
WriteNewlines(h, cs) ==
    IF cs = <<>> THEN <<>>
    ELSE IF cs[1] = 10 /\ h = "nt" THEN <<13, 10>> \o WriteNewlines(h, Tail(cs))
    ELSE <<cs[1]>> \o WriteNewlines(h, Tail(cs))

\* f.read() of a file opened with open(p, 'r')
ReadText(h, bytes) ==
    LET d == IF h = "nt" THEN Cp1252Decode(bytes) ELSE Utf8Decode(bytes)
    IN [ok |-> d.ok, text |-> IF d.ok THEN UniversalNewlines(d.text) ELSE <<>>]

\* f.write(text) to a file opened with open(p, 'w')
WriteText(h, text) ==
    LET t == WriteNewlines(h, text)
    IN IF h = "nt" THEN Cp1252Encode(t) ELSE [ok |-> TRUE, bytes |-> Utf8Encode(t)]

----------------------------------------------------------------------------
(* build(): what a failing stage leaves behind.  build() returns           *)
(* (False, None) at once; it neither runs cleanup nor removes anything.    *)

FailResult == [done |-> TRUE, success |-> FALSE, hasMeta |-> FALSE, keys |-> {}, meta |-> NoRecord]

\* variant of AbortFs: a build() that removed the build root when a stage fails
AbortFsRollback(f) == RmTree(f, build_dir)

AbortFs(f) == f

\* the stage that follows a stage that returned a true value
NextStage(stage) ==
    CASE stage = "deps" -> "prepare"
      [] stage = "prepare" -> "modify"
      [] stage = "modify" -> "obfuscate"
      [] stage = "obfuscate" -> "compile"
      [] stage = "compile" -> "metadata"
      [] stage = "metadata" -> "cleanup"
      [] stage = "cleanup" -> "returned"

\* one of the five checked stages has returned ok with the file system f
StageReturns(stage, ok, f) ==
    /\ ran' = Append(ran, stage)
    /\ fs' = IF ok THEN f ELSE AbortFs(f)
    /\ pc' = IF ok THEN NextStage(stage) ELSE "returned"
    /\ res' = IF ok THEN res ELSE FailResult

----------------------------------------------------------------------------
(* _check_dependencies *)

DepsEnv == [py : BOOLEAN, pyarmor : BOOLEAN, pyinstaller : BOOLEAN, upx : BOOLEAN, read : BOOLEAN]

\* variant of InputsPresent: a check that left the companion module out
InputsPresentNoDos(x, f) ==
    /\ Exists(f, source_file_path)
    /\ (x.icon_path # "" => Exists(f, <<x.icon_path>>))

\* the agent source, the companion module and a configured icon exist
InputsPresent(x, f) ==
    /\ Exists(f, source_file_path)
    /\ Exists(f, dos_module_path)
    /\ (x.icon_path # "" => Exists(f, <<x.icon_path>>))

\* variant of PayloadAllowed: a check that left the platform out
PayloadAllowedAnywhere(x, f) == Exists(f, <<x.payload_path>>)

\* a configured payload file exists and the target platform is windows
PayloadAllowed(x, f) ==
    /\ Exists(f, <<x.payload_path>>)
    /\ x.platform = "windows"

\* variant of upx_checked: a check that left the flag as requested
upx_checked_keep(x, env) == x

\* the UPX query: made only when UPX is requested; a failure turns the flag off
upx_checked(x, env) == IF x.use_upx /\ ~env.upx THEN [x EXCEPT !.use_upx = FALSE] ELSE x

\* what the UPX query found, when the check got as far as making it
upx_query(x, env) ==
    IF ~(env.py /\ env.pyarmor /\ env.pyinstaller) \/ ~x.use_upx THEN "unasked"
    ELSE IF env.upx THEN "found"
    ELSE "missing"

\* the tool version query that failed, when the check got as far as making it
tool_query(env) ==
    IF ~env.py THEN "none"
    ELSE IF ~env.pyarmor THEN "pyarmor"
    ELSE IF ~env.pyinstaller THEN "pyinstaller"
    ELSE "none"

\* variant of payload_loaded: a loader that cleared the configured path once
\* the bytes were in memory
payload_loaded_consuming(x, bytes) ==
    [x EXCEPT !.payload_data = [present |-> TRUE, b64 |-> B64Encode(bytes)], !.payload_path = ""]

\* self.payload_data = base64.b64encode(payload_bytes).decode('utf-8')
payload_loaded(x, bytes) ==
    [x EXCEPT !.payload_data = [present |-> TRUE, b64 |-> B64Encode(bytes)]]

\* variant of payload_checked: a verifier that read the file before it tested
\* the platform
payload_checked_read_first(x, f, env) ==
    IF ~env.read \/ ~IsFile(f, <<x.payload_path>>) THEN [ok |-> FALSE, b |-> x]
    ELSE [ok |-> PayloadAllowed(x, f), b |-> payload_loaded(x, f.files[<<x.payload_path>>].bytes)]

\* if self.payload_path: the existence check, the platform check, then the read
payload_checked(x, f, env) ==
    IF ~PayloadAllowed(x, f) THEN [ok |-> FALSE, b |-> x]
    ELSE IF ~env.read \/ ~IsFile(f, <<x.payload_path>>) THEN [ok |-> FALSE, b |-> x]
    ELSE [ok |-> TRUE, b |-> payload_loaded(x, f.files[<<x.payload_path>>].bytes)]

\* the checks after the two tool version queries: UPX, input files, icon, payload
remaining_checks(x, f, env) ==
        LET x1 == upx_checked(x, env)
        IN  IF ~InputsPresent(x1, f) THEN [ok |-> FALSE, b |-> x1]
            ELSE IF x1.payload_path = "" THEN [ok |-> TRUE, b |-> x1]
            ELSE payload_checked(x1, f, env)

\* variant of tool_failure: a failed version query that was only noted, the
\* remaining checks still made and failure reported at the end
tool_failure_deferred(x, f, env) == [ok |-> FALSE, b |-> remaining_checks(x, f, env).b]

\* a failed tool version query: logged, and False returned at once
tool_failure(x, f, env) == [ok |-> FALSE, b |-> x]

check_dependencies(x, f, env) ==
    IF ~env.py THEN [ok |-> FALSE, b |-> x]
    ELSE IF ~env.pyarmor THEN tool_failure(x, f, env)
    ELSE IF ~env.pyinstaller THEN tool_failure(x, f, env)
    ELSE remaining_checks(x, f, env)

CheckDependencies ==
    /\ pc = "deps"
    /\ \E env \in DepsEnv :
          LET r == check_dependencies(b, fs, env)
          IN  /\ b' = r.b
              /\ upxq' = upx_query(b, env)
              /\ toolq' = tool_query(env)
              /\ StageReturns("deps", r.ok, fs)
    /\ UNCHANGED <<fs0, cwd, host, argv, fell, prim, fb, faults, went, descr, out, exit>>

----------------------------------------------------------------------------
(* _prepare_build_environment and _create_payload_module *)

PayloadModuleContent(x) == Content(x.build_id, "payload_module", NoMarks, x.payload_data.b64)

\* the write is inside its own try block: an error is logged and False returned
create_payload_module(x, s) ==
    LET w == WriteS(s, payload_module, PayloadModuleContent(x))
    IN  IF w.ok THEN w ELSE [w EXCEPT !.ok = s.ok]

prepare_build_environment(x, f, fa) ==
    LET s1 == MakeDirsS(Begin(f, fa), build_dir)
        s2 == MakeDirsS(s1, prep_dir)
        s3 == MakeDirsS(s2, obfuscate_dir)
        s4 == MakeDirsS(s3, compile_dir)
        s5 == MakeDirsS(s4, x.output_dir)
        s6 == CopyS(s5, source_file_path, Join(prep_dir, SOURCE_FILE))
        s7 == CopyS(s6, dos_module_path, Join(prep_dir, DOS_MODULE_FILE))
        s8 == ListS(s7, BaseDir)
        s9 == ListS(s8, prep_dir)
    IN  IF HasPayloadData(x) /\ x.platform = "windows"
        THEN create_payload_module(x, s9)
        ELSE s9

PrepareBuildEnvironment ==
    /\ pc = "prepare"
    /\ \E fa \in FaultPoints(prepare_build_environment(b, fs, 0)) :
          LET s == prepare_build_environment(b, fs, fa)
          IN  StageReturns("prepare", s.ok, s.fs)
    /\ UNCHANGED <<b, fs0, cwd, host, argv, fell, prim, fb, faults, upxq, toolq, went, descr, out, exit>>

----------------------------------------------------------------------------
(* _modify_source_code *)

ZombieIds == {"zombie_c1"}

CheckInInterval(level) ==
    IF level = "basic" THEN 300
    ELSE IF level = "advanced" THEN 1800
    ELSE 600

\* variant of PollInterval: the poll intervals of basic and advanced exchanged
PollIntervalSwapped(level) ==
    IF level = "basic" THEN 120
    ELSE IF level = "advanced" THEN 30
    ELSE 60

PollInterval(level) ==
    IF level = "basic" THEN 30
    ELSE IF level = "advanced" THEN 120
    ELSE 60

\* the re.sub calls, on the marker lines of the source
CustomizeMarks(x, m, zid) ==
    LET persist == IF ~m.main THEN m.persist
                   ELSE IF x.platform = "windows" THEN "windows"
                   ELSE IF x.platform \in {"linux", "macos"} THEN "unix"
                   ELSE m.persist
        \* the injected Windows routine itself holds an import line
        hasImport == m.imp \/ (m.main /\ x.platform = "windows")
    IN  [imp |-> hasImport,
         server |-> IF m.server = "default" THEN x.server_url ELSE m.server,
         zid |-> IF m.zid = "expr" THEN zid ELSE m.zid,
         checkin |-> IF m.checkin = 300 THEN CheckInInterval(x.obfuscation_level) ELSE m.checkin,
         poll |-> IF m.poll = 30 THEN PollInterval(x.obfuscation_level) ELSE m.poll,
         main |-> m.main,
         persist |-> persist,
         payimp |-> IF x.platform = "windows" /\ HasPayloadData(x) /\ hasImport THEN TRUE ELSE m.payimp]

\* read the staged source as text, customise it, write it as text
CustomizeS(s, x, h, zid, src) ==
    IF ~s.ok THEN s
    ELSE LET rd == ReadText(h, s.fs.files[src].bytes)
             wr == WriteText(h, rd.text)
         IN  IF ~rd.ok \/ ~wr.ok THEN Raise(s)
             ELSE WriteS(s, modified_source(x),
                         Content(x.build_id, "modified",
                                 CustomizeMarks(x, s.fs.files[src].marks, zid), wr.bytes))

modify_source_code(x, f, h, zid, fa) ==
    CustomizeS(ReadS(Begin(f, fa), Join(prep_dir, SOURCE_FILE)), x, h, zid, Join(prep_dir, SOURCE_FILE))

ModifySourceCode ==
    /\ pc = "modify"
    /\ \E zid \in ZombieIds :
       \E fa \in FaultPoints(modify_source_code(b, fs, host, zid, 0)) :
          LET s == modify_source_code(b, fs, host, zid, fa)
          IN  StageReturns("modify", s.ok, s.fs)
    /\ UNCHANGED <<b, fs0, cwd, host, argv, fell, prim, fb, faults, upxq, toolq, went, descr, out, exit>>

----------------------------------------------------------------------------
(* zlib.compress / zlib.decompress, as the zlib container around one       *)
(* stored deflate block: 2 header bytes, the block header, LEN and NLEN    *)
(* (little-endian), the data, and the Adler-32 checksum (big-endian).      *)
(* The Huffman coding zlib applies inside the block is not modelled.       *)

RECURSIVE AdlerSums(_, _, _)
AdlerSums(bs, a, c) ==
    IF bs = <<>> THEN <<a, c>>
    ELSE LET a2 == (a + bs[1]) % 65521
         IN AdlerSums(Tail(bs), a2, (c + a2) % 65521)

Adler32(bs) ==
    LET ac == AdlerSums(bs, 1, 0)
    IN <<ac[2] \div 256, ac[2] % 256, ac[1] \div 256, ac[1] % 256>>

ZlibCompress(bs) ==
    <<120, 1, 1, Len(bs) % 256, Len(bs) \div 256,
      255 - (Len(bs) % 256), 255 - (Len(bs) \div 256)>> \o bs \o Adler32(bs)

ZlibDecompress(z) ==
    IF Len(z) < 11 THEN [ok |-> FALSE, bytes |-> <<>>]
    ELSE LET n == z[4] + 256 * z[5]
             data == SubSeq(z, 8, 7 + n)
         IN  IF /\ z[1] = 120 /\ z[2] = 1 /\ z[3] = 1
                /\ z[6] = 255 - z[4] /\ z[7] = 255 - z[5]
                /\ Len(z) = 11 + n
                /\ SubSeq(z, 8 + n, 11 + n) = Adler32(data)
             THEN [ok |-> TRUE, bytes |-> data]
             ELSE [ok |-> FALSE, bytes |-> <<>>]

----------------------------------------------------------------------------
(* base64.b85encode / base64.b85decode.  Four bytes are one 32-bit number, *)
(* written as five digits in base 85, most significant first; a short      *)
(* last chunk is padded with zero bytes and the padding dropped from the   *)
(* digits.  A 32-bit number is kept as its four bytes, so that no          *)
(* arithmetic leaves the range of the model checker's integers.            *)

\* bytes (big-endian) divided by 85: <<quotient bytes, remainder>>
RECURSIVE DivMod85(_, _, _)
DivMod85(bs, r, q) ==
    IF bs = <<>> THEN <<q, r>>
    ELSE LET cur == r * 256 + bs[1]
         IN DivMod85(Tail(bs), cur % 85, Append(q, cur \div 85))

RECURSIVE B85Digits(_, _)
B85Digits(bs, k) ==
    IF k = 0 THEN <<>>
    ELSE LET qr == DivMod85(bs, 0, <<>>)
         IN Append(B85Digits(qr[1], k - 1), qr[2])

RECURSIVE ZeroPad(_, _, _)
ZeroPad(q, n, v) == IF Len(q) >= n THEN q ELSE ZeroPad(Append(q, v), n, v)

RECURSIVE B85Encode(_)
B85Encode(bs) ==
    IF bs = <<>> THEN <<>>
    ELSE IF Len(bs) < 4 THEN SubSeq(B85Digits(ZeroPad(bs, 4, 0), 5), 1, Len(bs) + 1)
    ELSE B85Digits(SubSeq(bs, 1, 4), 5) \o B85Encode(SubSeq(bs, 5, Len(bs)))

\* bytes (big-endian) times 85 plus d, from the last byte up: <<bytes, carry>>
RECURSIVE MulAdd85(_, _, _)
MulAdd85(bs, d, acc) ==
    IF bs = <<>> THEN <<acc, d>>
    ELSE LET cur == bs[Len(bs)] * 85 + d
         IN MulAdd85(SubSeq(bs, 1, Len(bs) - 1), cur \div 256, <<cur % 256>> \o acc)

RECURSIVE B85Chunk(_, _)
B85Chunk(ds, acc) ==
    IF ds = <<>> THEN [ok |-> TRUE, bytes |-> acc]
    ELSE LET m == MulAdd85(acc, ds[1], <<>>)
         IN IF m[2] # 0 THEN [ok |-> FALSE, bytes |-> <<>>] ELSE B85Chunk(Tail(ds), m[1])

RECURSIVE B85Decode(_)
B85Decode(ds) ==
    IF ds = <<>> THEN [ok |-> TRUE, bytes |-> <<>>]
    ELSE IF Len(ds) < 5 THEN
        LET c == B85Chunk(ZeroPad(ds, 5, 84), <<0, 0, 0, 0>>)
        IN [ok |-> c.ok, bytes |-> IF c.ok THEN SubSeq(c.bytes, 1, Len(ds) - 1) ELSE <<>>]
    ELSE
        LET c == B85Chunk(SubSeq(ds, 1, 5), <<0, 0, 0, 0>>)
            r == B85Decode(SubSeq(ds, 6, Len(ds)))
        IN IF c.ok /\ r.ok THEN [ok |-> TRUE, bytes |-> c.bytes \o r.bytes]
           ELSE [ok |-> FALSE, bytes |-> <<>>]

\* the blob the wrapper script embeds for the source text it read
\* variant of ManualBlob: a blob that is encoded without being compressed
ManualBlobRaw(text) == B85Encode(Utf8Encode(text))

ManualBlob(text) == B85Encode(ZlibCompress(Utf8Encode(text)))

\* what the wrapper script computes from its blob: the bytes it decodes and executes
UnpackBlob(blob) ==
    LET d == B85Decode(blob)
    IN IF d.ok THEN ZlibDecompress(d.bytes) ELSE [ok |-> FALSE, bytes |-> <<>>]

----------------------------------------------------------------------------
(* _try_pyarmor_obfuscation.  The external tool decides its exit status    *)
(* and which files it leaves in its output directory: the obfuscated main  *)
(* script, the companion modules it found beside it, a runtime file of     *)
(* its own whose name starts with pyarmor_.                                *)

PYARMOR_RUNTIME == "pyarmor_runtime.py"
PAYLOAD_MODULE_NAME == BaseName(payload_module)

pyarmor_work_dir == Join(build_dir, "pyarmor_work")
pyarmor_dist_dir == Join(pyarmor_work_dir, "dist")
modified_source_name(x) == BaseName(modified_source(x))

StartsWithPyarmor(name) == name = PYARMOR_RUNTIME

ToolRuns ==
    {[exit |-> 1, emits |-> {}],
     [exit |-> 0, emits |-> {}],
     [exit |-> 0, emits |-> {"main"}],
     [exit |-> 0, emits |-> {"main", "companions", "runtime"}]}

ToolContent(x, f, src) ==
    Content(x.build_id, "pyarmor", IF IsFile(f, src) THEN f.files[src].marks ELSE NoMarks, <<>>)

\* the files the tool writes into its output directory
ToolOutput(x, f, tool) ==
    LET names == (IF "main" \in tool.emits THEN {modified_source_name(x)} ELSE {})
                 \cup (IF "companions" \in tool.emits
                       THEN {n \in {DOS_MODULE_FILE, PAYLOAD_MODULE_NAME} : IsFile(f, Join(pyarmor_work_dir, n))}
                       ELSE {})
                 \cup (IF "runtime" \in tool.emits THEN {PYARMOR_RUNTIME} ELSE {})
        new == {Join(pyarmor_dist_dir, n) : n \in names}
    IN  [f EXCEPT !.files = [q \in (DOMAIN @) \cup new |->
                                IF q \in new
                                THEN ToolContent(x, f, Join(pyarmor_work_dir, BaseName(q)))
                                ELSE @[q]]]

\* subprocess.run(cmd, check=True): the tool did not start (I/O error), or ran
RunToolS(s, f2, exitOk) ==
    IF ~s.ok THEN s
    ELSE IF s.n + 1 = s.fa THEN [s EXCEPT !.ok = FALSE, !.n = @ + 1]
    ELSE [s EXCEPT !.fs = f2, !.ok = exitOk, !.n = @ + 1]

\* for file in os.listdir(src_dir): copy every regular file into dst_dir
CopyAllFiles(f, src_dir, dst_dir) ==
    LET names == ListFiles(f, src_dir)
        new == {Join(dst_dir, n) : n \in names}
    IN  [f EXCEPT !.files = [q \in (DOMAIN @) \cup new |->
                                IF q \in new THEN @[Join(src_dir, BaseName(q))] ELSE @[q]]]

CopyAllS(s, src_dir, dst_dir) ==
    Do(s, IsDir(s.fs, src_dir) /\ IsDir(s.fs, dst_dir)
          /\ \A n \in ListFiles(s.fs, src_dir) : ~IsDir(s.fs, Join(dst_dir, n)),
       CopyAllFiles(s.fs, src_dir, dst_dir))

UsesPayloadModule(x) == HasPayloadData(x) /\ x.platform = "windows"

\* os.chdir(d): the directory the process is in afterwards
ChDir(d) == d

\* variant of restore_dir: a stage without the finally clause
restore_dir_skipped(original_dir, inside) == inside

\* finally: os.chdir(original_dir).  original_dir is the directory the process
\* was in when the stage switched; no stage removes it, so the call succeeds
restore_dir(original_dir, inside) == ChDir(original_dir)

\* up to os.chdir(pyarmor_work_dir), which raises if the directory cannot be entered
pyarmor_entered(x, f, fa) ==
    LET s1 == MakeDirsS(Begin(f, fa), pyarmor_work_dir)
        s2 == CopyS(s1, modified_source(x), Join(pyarmor_work_dir, modified_source_name(x)))
        s3 == CopyS(s2, Join(prep_dir, DOS_MODULE_FILE), Join(pyarmor_work_dir, DOS_MODULE_FILE))
        s4 == IF UsesPayloadModule(x)
              THEN CopyS(s3, payload_module, Join(pyarmor_work_dir, PAYLOAD_MODULE_NAME))
              ELSE s3
    IN  ListS(s4, pyarmor_work_dir)

\* up to the point where the tool is started
pyarmor_before_tool(x, f, fa) == MakeDirsS(pyarmor_entered(x, f, fa), pyarmor_dist_dir)

\* the working directory when _try_pyarmor_obfuscation returns: where it was if
\* the switch was not reached, and what the finally clause leaves otherwise
pyarmor_cwd(x, f, fa, wd) ==
    IF pyarmor_entered(x, f, fa).ok THEN restore_dir(wd, ChDir(pyarmor_work_dir)) ELSE wd

RunPyarmorS(s, x, tool) == RunToolS(s, ToolOutput(x, s.fs, tool), tool.exit = 0)

try_pyarmor_obfuscation(x, f, fa, tool) ==
    LET obfuscated_source == Join(pyarmor_dist_dir, modified_source_name(x))
        s7 == RunPyarmorS(pyarmor_before_tool(x, f, fa), x, tool)
        s8 == MakeDirsS(s7, obfuscate_dir)
        s9 == RequireS(s8, obfuscated_source)
        s10 == CopyS(s9, obfuscated_source, obfuscated_file(x))
        s11 == CopyAllS(s10, pyarmor_dist_dir, obfuscate_dir)
        s12 == CopyPreferS(s11, Join(pyarmor_dist_dir, DOS_MODULE_FILE), Join(prep_dir, DOS_MODULE_FILE),
                           Join(obfuscate_dir, DOS_MODULE_FILE))
        s13 == IF UsesPayloadModule(x)
               THEN CopyPreferS(s12, Join(pyarmor_dist_dir, PAYLOAD_MODULE_NAME), payload_module,
                                Join(obfuscate_dir, PAYLOAD_MODULE_NAME))
               ELSE s12
    IN  ListS(s13, obfuscate_dir)

----------------------------------------------------------------------------
(* _manual_obfuscation *)

\* read the customised source as text and write the wrapper script around its blob
WrapS(s, x, h) ==
    IF ~s.ok THEN s
    ELSE LET src == s.fs.files[modified_source(x)]
             rd == ReadText(h, src.bytes)
         IN  IF ~rd.ok THEN Raise(s)
             ELSE WriteS(MakeDirsS(s, obfuscate_dir), obfuscated_file(x),
                         Content(x.build_id, "manual", src.marks, ManualBlob(rd.text)))

manual_obfuscation(x, f, h, fa) ==
    LET s4 == WrapS(ReadS(Begin(f, fa), modified_source(x)), x, h)
        s5 == CopyS(s4, Join(prep_dir, DOS_MODULE_FILE), Join(obfuscate_dir, DOS_MODULE_FILE))
        s6 == IF UsesPayloadModule(x)
              THEN CopyS(s5, payload_module, Join(obfuscate_dir, PAYLOAD_MODULE_NAME))
              ELSE s5
        s7 == RequireS(s6, obfuscated_file(x))
    IN  ListS(s7, obfuscate_dir)

----------------------------------------------------------------------------
(* _obfuscate_code: the primary path, and the fallback when it reports     *)
(* failure.  _try_pyarmor_obfuscation catches every exception itself, so   *)
(* the except branch of _obfuscate_code has nothing left to catch.         *)

\* variant of EntersFallback: an obfuscation stage without the fallback
NeverFallback(primaryOk) == FALSE

EntersFallback(primaryOk) == ~primaryOk

obfuscate_code(x, f, h, fa1, tool, fa2) ==
    LET p == try_pyarmor_obfuscation(x, f, fa1, tool)
    IN  IF EntersFallback(p.ok)
        THEN LET m == manual_obfuscation(x, p.fs, h, fa2)
             IN [fs |-> m.fs, ok |-> m.ok, prim |-> IF p.ok THEN "ok" ELSE "failed", fell |-> 1,
                 fb |-> IF m.ok THEN "ok" ELSE "failed"]
        ELSE [fs |-> p.fs, ok |-> p.ok, prim |-> IF p.ok THEN "ok" ELSE "failed", fell |-> 0,
              fb |-> "none"]

NoToolRun == [exit |-> 1, emits |-> {}]

ObfuscateCode ==
    /\ pc = "obfuscate"
    /\ \E fa1 \in FaultPoints(try_pyarmor_obfuscation(b, fs, 0, [exit |-> 0, emits |-> {"main"}])) :
       \E tool \in IF fa1 # 0 /\ fa1 <= pyarmor_before_tool(b, fs, 0).n THEN {NoToolRun} ELSE ToolRuns :
          LET p == try_pyarmor_obfuscation(b, fs, fa1, tool)
          IN  \E fa2 \in IF p.ok THEN {0} ELSE FaultPoints(manual_obfuscation(b, p.fs, host, 0)) :
                 LET r == obfuscate_code(b, fs, host, fa1, tool, fa2)
                 IN  /\ StageReturns("obfuscate", r.ok, r.fs)
                     /\ prim' = r.prim
                     /\ fell' = fell + r.fell
                     /\ fb' = r.fb
          /\ cwd' = pyarmor_cwd(b, fs, fa1, cwd)
          /\ went' = IF pyarmor_entered(b, fs, fa1).ok THEN went \cup {pyarmor_work_dir} ELSE went
    /\ UNCHANGED <<b, fs0, host, argv, faults, upxq, toolq, descr, out, exit>>

----------------------------------------------------------------------------
(* _generate_spec_file: the build descriptor, from the listing of the      *)
(* compilation working directory                                           *)

NoDescriptor ==
    [made |-> FALSE, script |-> "", datas |-> {}, payload_import |-> FALSE,
     upx |-> FALSE, console |-> FALSE, argv_emulation |-> FALSE, icon |-> ""]

generate_spec_file(x, f) ==
    LET file_list == ListDir(f, compile_dir)
    IN  [made |-> TRUE,
         script |-> BaseName(obfuscated_file(x)),
         datas |-> (IF DOS_MODULE_FILE \in file_list THEN {DOS_MODULE_FILE} ELSE {})
                   \cup (IF UsesPayloadModule(x) /\ PAYLOAD_MODULE_NAME \in file_list
                         THEN {PAYLOAD_MODULE_NAME} ELSE {})
                   \cup {n \in file_list : StartsWithPyarmor(n)},
         payload_import |-> UsesPayloadModule(x),
         upx |-> x.use_upx,
         console |-> x.platform # "windows",
         argv_emulation |-> (x.platform = "macos"),
         icon |-> x.icon_path]

----------------------------------------------------------------------------
(* _compile_executable.  The packaging tool decides its exit status and    *)
(* whether it leaves the executable under the expected name.               *)

PackRuns == {"nonzero", "noexe", "ok"}

spec_file(x) == Join(compile_dir, x.build_id \o ".spec")
compile_dist_dir == Join(compile_dir, "dist")
compiled_exe(x) == Join(compile_dist_dir, executable_name(x))

files_to_check(x) ==
    <<obfuscated_file(x), Join(obfuscate_dir, DOS_MODULE_FILE)>>
    \o (IF UsesPayloadModule(x) THEN <<Join(obfuscate_dir, PAYLOAD_MODULE_NAME)>> ELSE <<>>)

RequiredFilesPresent(x, f) == \A i \in 1..Len(files_to_check(x)) : Exists(f, files_to_check(x)[i])

RECURSIVE CopyEachS(_, _, _)
CopyEachS(s, paths, dst_dir) ==
    IF paths = <<>> THEN s
    ELSE CopyEachS(CopyS(s, paths[1], Join(dst_dir, BaseName(paths[1]))), Tail(paths), dst_dir)

\* what the packaging tool leaves in the compilation working directory
PackOutput(x, f, run) ==
    LET f1 == MakeDirs(MakeDirs(f, Join(compile_dir, "build")), compile_dist_dir)
    IN  IF run = "ok"
        THEN PutFile(f1, compiled_exe(x), Content(x.build_id, "executable", NoMarks, <<>>))
        ELSE f1

\* the required-file check, then shutil.rmtree(compile_dir, ignore_errors=True)
CheckAndClearS(s, x) ==
    IF ~RequiredFilesPresent(x, s.fs) THEN Raise(s) ELSE RmTreeS(s, compile_dir)

\* the working directory staged: cleared, then filled from the obfuscation directory
compile_staged(x, f, fa) ==
    LET s1 == CheckAndClearS(Begin(f, fa), x)
        s2 == MakeDirsS(s1, compile_dir)
        s3 == CopyEachS(s2, files_to_check(x), compile_dir)
    IN  CopyAllS(s3, obfuscate_dir, compile_dir)

\* _generate_spec_file lists the working directory
compile_listed(x, f, fa) == ListS(compile_staged(x, f, fa), compile_dir)

DescriptorS(s, x) == IF s.ok THEN generate_spec_file(x, s.fs) ELSE NoDescriptor

DescriptorOf(x, f, fa) == DescriptorS(compile_listed(x, f, fa), x)

\* the descriptor written, up to os.chdir(self.compile_dir)
compile_entered(x, f, fa) ==
    LET s5 == compile_listed(x, f, fa)
        s6 == WriteS(s5, spec_file(x), Content(x.build_id, "spec", NoMarks, <<>>))
    IN  ListS(s6, compile_dir)

\* up to the point where the packaging tool is started
compile_before_tool(x, f, fa) == ListS(compile_entered(x, f, fa), compile_dir)

\* the working directory when _compile_executable returns
compile_cwd(x, f, fa, wd) ==
    IF compile_entered(x, f, fa).ok THEN restore_dir(wd, ChDir(compile_dir)) ELSE wd

RunPackagerS(s, x, run) == RunToolS(s, PackOutput(x, s.fs, run), run # "nonzero")

compile_executable(x, f, fa, run) ==
    LET s9 == RunPackagerS(compile_before_tool(x, f, fa), x, run)
        s10 == RequireS(s9, compiled_exe(x))
        s11 == MakeDirsS(s10, x.output_dir)
    IN  CopyS(s11, compiled_exe(x), final_executable(x))

CompileExecutable ==
    /\ pc = "compile"
    /\ \E fa \in FaultPoints(compile_executable(b, fs, 0, "ok")) :
       \E run \in IF fa # 0 /\ fa <= compile_before_tool(b, fs, 0).n THEN {"nonzero"} ELSE PackRuns :
          LET s == compile_executable(b, fs, fa, run)
              d == DescriptorOf(b, fs, fa)
          IN  /\ StageReturns("compile", s.ok, s.fs)
              /\ descr' = IF d.made THEN d ELSE descr
          /\ cwd' = compile_cwd(b, fs, fa, cwd)
          /\ went' = IF compile_entered(b, fs, fa).ok THEN went \cup {compile_dir} ELSE went
    /\ UNCHANGED <<b, fs0, host, argv, fell, prim, fb, faults, upxq, toolq, out, exit>>

----------------------------------------------------------------------------
(* _generate_metadata *)

FullKeys ==
    {"build_id", "timestamp", "platform", "server_url", "obfuscation_level",
     "executable", "zombie_id", "build_system"}

MinimalKeys == {"build_id", "timestamp", "platform", "executable"}

NoPayloadSection == [source |-> "", size |-> 0, technique |-> "", delay |-> 0]

\* variant of BakedId: a search for the dynamic expression, which the customised
\* source no longer holds
BakedIdUnmatched(marks) == IF marks.zid = "expr" THEN marks.zid ELSE ""

\* re.search(r'ZOMBIE_ID = "(zombie_[a-f0-9]+)"', ...): a baked identifier
BakedId(marks) == IF marks.zid \in ZombieIds THEN marks.zid ELSE ""

MinimalRecord(x) ==
    [keys |-> MinimalKeys,
     build_id |-> x.build_id, timestamp |-> x.build_timestamp, platform |-> x.platform,
     server_url |-> "", obfuscation_level |-> "", executable |-> BaseName(final_executable(x)),
     zombie_id |-> "", payload |-> NoPayloadSection]

\* variant of WithPayloadSection: a section written only for a payload that was loaded non-empty
WithPayloadSectionLoaded(x) == HasPayloadData(x) /\ x.platform = "windows"

WithPayloadSection(x) == x.payload_path # "" /\ x.platform = "windows"

FullRecord(x, f, zombie_id) ==
    [keys |-> FullKeys \cup (IF WithPayloadSection(x) THEN {"payload"} ELSE {}),
     build_id |-> x.build_id, timestamp |-> x.build_timestamp, platform |-> x.platform,
     server_url |-> x.server_url, obfuscation_level |-> x.obfuscation_level,
     executable |-> BaseName(final_executable(x)),
     zombie_id |-> zombie_id,
     payload |-> IF WithPayloadSection(x) /\ IsFile(f, <<x.payload_path>>)
                 THEN [source |-> x.payload_path, size |-> Len(f.files[<<x.payload_path>>].bytes),
                       technique |-> x.payload_technique, delay |-> x.payload_delay]
                 ELSE NoPayloadSection]

\* the inner try block: the identifier found in the customised source, or none
ReadIdS(s, x) ==
    IF s.ok THEN BakedId(s.fs.files[modified_source(x)].marks) ELSE ""

Swallow(s) == [s EXCEPT !.ok = TRUE]

SizeS(s, x) == IF WithPayloadSection(x) THEN ReadS(s, <<x.payload_path>>) ELSE s

RecordS(s, x, found) ==
    IF s.ok
    THEN [fs |-> s.fs, n |-> s.n, ok |-> TRUE,
          meta |-> FullRecord(x, s.fs, IF found # "" THEN found ELSE "unknown_" \o x.build_id)]
    ELSE [fs |-> s.fs, n |-> s.n, ok |-> FALSE, meta |-> MinimalRecord(x)]

\* [fs, n, meta]: the record returned, the full one or the minimal one
generate_metadata(x, f, fa) ==
    LET s1 == ReadS(Begin(f, fa), modified_source(x))
        s2 == SizeS(Swallow(s1), x)
        s3 == WriteS(s2, metadata_file(x), Content(x.build_id, "metadata", NoMarks, <<>>))
    IN  RecordS(s3, x, ReadIdS(s1, x))

GenerateMetadata ==
    /\ pc = "metadata"
    /\ \E fa \in FaultPoints(generate_metadata(b, fs, 0)) :
          LET r == generate_metadata(b, fs, fa)
          IN  /\ fs' = r.fs
              /\ res' = [res EXCEPT !.hasMeta = TRUE, !.keys = r.meta.keys, !.meta = r.meta]
              /\ faults' = IF r.ok THEN faults ELSE faults \cup {"metadata"}
    /\ ran' = Append(ran, "metadata")
    /\ pc' = NextStage("metadata")
    /\ UNCHANGED <<b, fs0, cwd, host, argv, fell, prim, fb, upxq, toolq, went, descr, out, exit>>

----------------------------------------------------------------------------
(* _clean_up, and the return of build() *)

IsSpecName(name) == name \in {id \o ".spec" : id \in BuildIds}

RECURSIVE RemoveFiles(_, _)
RemoveFiles(f, ps) ==
    IF ps = {} THEN f
    ELSE LET p == CHOOSE q \in ps : TRUE IN RemoveFiles(RemoveFile(f, p), ps \ {p})

RemoveSpecsS(s, wd) ==
    IF ~s.ok THEN s
    ELSE [s EXCEPT !.fs = RemoveFiles(s.fs, {Join(wd, n) : n \in {m \in ListFiles(s.fs, wd) : IsSpecName(m)}})]

RemoveBuildS(s, wd) ==
    IF s.ok /\ Exists(s.fs, Join(wd, "build")) THEN RmTreeS(s, Join(wd, "build")) ELSE s

\* variant of clean_up: a cleanup that removed nothing in either mode
clean_up_keep(x, f, wd, fa) == Begin(f, fa)

\* the value _clean_up returns is True on every path, and build() does not read it
clean_up(x, f, wd, fa) ==
    IF x.debug THEN Begin(f, fa)
    ELSE RemoveBuildS(RemoveSpecsS(ListS(RmTreeS(Begin(f, fa), build_dir), wd), wd), wd)

\* variant of BuildSucceeds: a build() that reported failure for a minimal metadata record
BuildSucceedsIfFull(r) == [r EXCEPT !.done = TRUE, !.success = (r.keys # MinimalKeys)]

BuildSucceeds(r) == [r EXCEPT !.done = TRUE, !.success = TRUE]

CleanUp ==
    /\ pc = "cleanup"
    /\ \E fa \in FaultPoints(clean_up(b, fs, cwd, 0)) :
          /\ fs' = clean_up(b, fs, cwd, fa).fs
          /\ faults' = IF clean_up(b, fs, cwd, fa).ok THEN faults ELSE faults \cup {"cleanup"}
    /\ ran' = Append(ran, "cleanup")
    /\ pc' = NextStage("cleanup")
    /\ res' = BuildSucceeds(res)
    /\ UNCHANGED <<b, fs0, cwd, host, argv, fell, prim, fb, upxq, toolq, went, descr, out, exit>>

----------------------------------------------------------------------------
(* main(): the summary or the failure notice, and the exit status.  A key  *)
(* missing from the metadata record raises KeyError, which nothing         *)
(* catches: the interpreter prints the traceback and exits with status 1.  *)

SummaryKeys == <<"platform", "build_id", "zombie_id", "executable", "server_url">>

RECURSIVE PrintKeys(_, _)
PrintKeys(keys, wanted) ==
    IF wanted = <<>> THEN [ok |-> TRUE, lines |-> <<>>]
    ELSE IF wanted[1] \notin keys THEN [ok |-> FALSE, lines |-> <<>>]
    ELSE LET r == PrintKeys(keys, Tail(wanted))
         IN [ok |-> r.ok, lines |-> <<wanted[1]>> \o r.lines]

main_output(r) ==
    IF ~r.success THEN [lines |-> <<"Build failed!">>, status |-> 1]
    ELSE LET p == PrintKeys(r.keys, SummaryKeys)
         IN  IF ~p.ok THEN [lines |-> <<"Build Summary:">> \o p.lines, status |-> 1]
             ELSE [lines |-> <<"Build Summary:">> \o p.lines
                             \o (IF "payload" \in r.keys THEN <<"Payload Information:">> ELSE <<>>)
                             \o <<"Build completed successfully!">>,
                   status |-> 0]

Main ==
    /\ pc = "returned"
    /\ out' = main_output(res).lines
    /\ exit' = main_output(res).status
    /\ pc' = "exited"
    /\ UNCHANGED <<fs, b, ran, res, fs0, cwd, host, argv, fell, prim, fb, faults, upxq, toolq, went, descr>>

----------------------------------------------------------------------------
(* The initial states: the working directory before the tool is started    *)

(* A world is a host, a command line and the files lying in the working    *)
(* directory.  The worlds of the model are families, each varying a few    *)
(* of these around BaseArgs with every input present.                      *)

World(h, args, src, marks, text, dos, icon, payload, pbytes) ==
    [host |-> h, args |-> args, dirs |-> {BaseDir},
     files |-> [p \in (IF src THEN {<<SOURCE_FILE>>} ELSE {})
                      \cup (IF dos THEN {<<DOS_MODULE_FILE>>} ELSE {})
                      \cup (IF icon THEN {<<"icon.ico">>} ELSE {})
                      \cup (IF payload THEN {<<"payload.bat">>} ELSE {}) |->
                  IF p = <<SOURCE_FILE>> THEN InputContent(marks, text)
                  ELSE IF p = <<"payload.bat">> THEN InputContent(NoMarks, pbytes)
                  ELSE InputContent(NoMarks, <<>>)]]

\* the two input files, present or not, and the agent source with or without markers
InputWorlds ==
    {World("posix", BaseArgs, src, marks, DefaultText, dos, FALSE, FALSE, <<>>) :
        src \in BOOLEAN, dos \in BOOLEAN, marks \in SourceVariants}

\* obfuscation level and UPX; an icon, present or not
OptionWorlds ==
    {World("posix", [BaseArgs EXCEPT !.obfuscation = lv, !.upx = u], TRUE, FullMarks, DefaultText,
           TRUE, FALSE, FALSE, <<>>) : lv \in Levels, u \in BOOLEAN}
    \cup {World("posix", [BaseArgs EXCEPT !.icon = "icon.ico"], TRUE, FullMarks, DefaultText,
                TRUE, icon, FALSE, <<>>) : icon \in BOOLEAN}

\* a payload path on every platform and host, the payload file absent or of every
\* length; a payload without markers in the source, and one together with UPX
PayloadWorlds ==
    {World(h, [BaseArgs EXCEPT !.platform = pl, !.payload = "payload.bat"], TRUE, FullMarks,
           DefaultText, TRUE, FALSE, TRUE, pb) :
        h \in {"posix", "nt"}, pl \in Platforms \cup {"current"}, pb \in PayloadContents}
    \cup {World(h, [BaseArgs EXCEPT !.platform = pl, !.payload = "payload.bat"], TRUE, FullMarks,
                DefaultText, TRUE, FALSE, FALSE, <<>>) :
             h \in {"posix", "nt"}, pl \in Platforms \cup {"current"}}
    \cup {World("posix", [BaseArgs EXCEPT !.platform = "windows", !.payload = "payload.bat"], TRUE,
                NoMarks, DefaultText, TRUE, FALSE, TRUE, <<255>>)}
    \cup {World("posix", [BaseArgs EXCEPT !.platform = "windows", !.payload = "payload.bat",
                                          !.upx = TRUE], TRUE,
                FullMarks, DefaultText, TRUE, FALSE, TRUE, <<255>>)}

\* debug flag and output directory, without a payload (macos) and with one (windows)
CleanupWorlds ==
    {World("posix", [BaseArgs EXCEPT !.platform = "macos", !.debug = d, !.output = o], TRUE,
           FullMarks, DefaultText, TRUE, FALSE, FALSE, <<>>) : d \in BOOLEAN, o \in OutputDirs}
    \cup {World("posix", [BaseArgs EXCEPT !.platform = "windows", !.payload = "payload.bat",
                                          !.debug = d, !.output = o], TRUE,
                FullMarks, DefaultText, TRUE, FALSE, TRUE, <<255>>) : d \in BOOLEAN, o \in OutputDirs}

(* A working directory in which the tool has been run before.  The earlier  *)
(* invocation ran in debug mode with its own build identifier and baked     *)
(* agent identifier, in the same second; it went through the primary        *)
(* obfuscation path and either finished or failed in the packaging tool.    *)
(* What it left is computed by the stages themselves.                       *)

EarlierBuilder ==
    NewBuilder([BaseArgs EXCEPT !.debug = TRUE], "posix", "zombie_09", "20260101000000")

EarlierObfuscated(f) ==
    obfuscate_code(EarlierBuilder,
                   modify_source_code(EarlierBuilder,
                                      prepare_build_environment(EarlierBuilder, f, 0).fs,
                                      "posix", "zombie_c0", 0).fs,
                   "posix", 0, [exit |-> 0, emits |-> {"main", "companions", "runtime"}], 0).fs

EarlierFinished(s) ==
    IF s.ok THEN clean_up(EarlierBuilder, generate_metadata(EarlierBuilder, s.fs, 0).fs, BaseDir, 0).fs
    ELSE AbortFs(s.fs)

EarlierBuild(f, run) ==
    EarlierFinished(compile_executable(EarlierBuilder, EarlierObfuscated(f), 0, run))

LeftBy(w, run) ==
    [host |-> w.host, args |-> w.args,
     dirs |-> EarlierBuild([dirs |-> w.dirs, files |-> w.files], run).dirs,
     files |-> EarlierBuild([dirs |-> w.dirs, files |-> w.files], run).files]

LeftoverWorlds ==
    {LeftBy(World("posix", BaseArgs, TRUE, FullMarks, DefaultText, TRUE, FALSE, FALSE, <<>>), run) :
        run \in {"ok", "nonzero"}}

Worlds == InputWorlds \cup OptionWorlds \cup PayloadWorlds \cup CleanupWorlds \cup LeftoverWorlds

InitWith(w) ==
    /\ host = w.host
    /\ argv = w.args
    /\ fs = [dirs |-> w.dirs, files |-> w.files]
    /\ b = NoBuilder
    /\ pc = "start"
    /\ ran = <<>>
    /\ res = NoResult
    /\ fs0 = fs
    /\ cwd = BaseDir
    /\ fell = 0
    /\ prim = "none"
    /\ fb = "none"
    /\ faults = {}
    /\ upxq = "unasked"
    /\ toolq = "none"
    /\ went = {}
    /\ descr = NoDescriptor
    /\ out = <<>>
    /\ exit = -1

Init == \E w \in Worlds : InitWith(w)

\* The agent source with every content up to MaxTextLen bytes over line feed,
\* carriage return and the two bytes of a UTF-8 encoded accented letter
TextBytes == {10, 13, 195, 169}

TextWorlds ==
    {World(h, BaseArgs, TRUE, FullMarks, t, TRUE, FALSE, FALSE, <<>>) :
        h \in {"posix", "nt"}, t \in SeqsUpTo(TextBytes, MaxTextLen)}

InitText == \E w \in TextWorlds : InitWith(w)

Next ==
    \/ Construct
    \/ CheckDependencies
    \/ PrepareBuildEnvironment
    \/ ModifySourceCode
    \/ ObfuscateCode
    \/ CompileExecutable
    \/ GenerateMetadata
    \/ CleanUp
    \/ Main

Spec == Init /\ [][Next]_vars

\* the same pipeline, started on every agent source text of the bound
SpecText == InitText /\ [][Next]_vars

----------------------------------------------------------------------------
(* Properties of build() and main() *)

Range(q) == {q[i] : i \in 1..Len(q)}


Succeeded == res.done /\ res.success

Failed == res.done /\ ~res.success

\* the stages entered so far are the first stages of the fixed order, and a
\* stage waiting to start is the one after them
C1_Order ==
    /\ ran = SubSeq(Stages, 1, Len(ran))
    /\ pc \in Range(Stages) => (pc = Stages[Len(ran) + 1] /\ ~res.done)

\* a failed build carries no metadata and stopped in one of the first five stages
C1_Abort ==
    Failed => (~res.hasMeta /\ res.keys = {} /\ Len(ran) \in 1..5)

\* the step in which build() returns failure removes no directory and no file;
\* the compilation working directory is left out, which the compile stage
\* itself clears before it fills it
C1_Left ==
    (~res.done /\ res'.done /\ ~res'.success) =>
        /\ {p \in fs.dirs : ~IsPrefix(compile_dir, p)} \subseteq fs'.dirs
        /\ {p \in DOMAIN fs.files : ~IsPrefix(compile_dir, p)} \subseteq DOMAIN fs'.files

\* C1: build() runs its stages in the fixed order deps, prepare, modify,
\* obfuscate, compile, metadata, cleanup; a stage starts only after every
\* earlier stage returned success; when one of the first five stages fails,
\* build() returns failure without metadata at once, no later stage runs and
\* no cleanup runs, so what was created under the build root stays in place.
C1_StagesInOrderAbortOnFailure ==
    [](C1_Order /\ C1_Abort) /\ [][C1_Left]_vars

\* a build that failed in the obfuscation stage, with the prepared source still on disk
C1_Witness ==
    /\ Failed
    /\ ran = <<"deps", "prepare", "modify", "obfuscate">>
    /\ IsFile(fs, Join(prep_dir, SOURCE_FILE))
    /\ IsDir(fs, obfuscate_dir)

\* an input the dependency check requires is missing or the payload configuration is invalid
DepsMustFail ==
    \/ ~Exists(fs0, source_file_path)
    \/ ~Exists(fs0, dos_module_path)
    \/ (b.icon_path # "" /\ ~Exists(fs0, <<b.icon_path>>))
    \/ (b.payload_path # "" /\ (~Exists(fs0, <<b.payload_path>>) \/ b.platform # "windows"))

\* C2: when the dependency check fails (a missing source or companion module,
\* a configured but missing icon, an invalid payload configuration, a missing
\* tool or an unsupported runtime), build() returns failure before anything
\* is written: the file system is the one build() was entered with, and the
\* build root, the staging directories and the output directory exist only if
\* an earlier invocation had left them.
C2_DepsFailureTouchesNothing ==
    /\ (ran # <<>> /\ DepsMustFail) => (ran = <<"deps">> /\ Failed)
    /\ (res.done /\ ran = <<"deps">>) =>
          /\ ~res.success /\ ~res.hasMeta
          /\ fs = fs0
          /\ \A d \in {build_dir, prep_dir, obfuscate_dir, compile_dir, b.output_dir} :
                Exists(fs, d) => Exists(fs0, d)

\* a build that returned from the dependency check because the companion module is missing
C2_Witness ==
    /\ Failed
    /\ ran = <<"deps">>
    /\ Exists(fs0, source_file_path)
    /\ ~Exists(fs0, dos_module_path)

\* C3: with a payload path configured and a resolved platform other than
\* windows, the dependency check fails whether or not the payload file
\* exists: the payload is never loaded and the staging stage is never entered.
C3_PayloadOnlyOnWindows ==
    (pc # "start" /\ b.payload_path # "" /\ b.platform # "windows") =>
        /\ ~b.payload_data.present
        /\ "prepare" \notin Range(ran)
        /\ (ran # <<>> => Failed)

\* a linux build with an existing payload file, refused by the dependency check
C3_Witness ==
    /\ Failed
    /\ b.payload_path # ""
    /\ b.platform = "linux"
    /\ IsFile(fs, <<b.payload_path>>)
    /\ ran = <<"deps">>

C5_OutputsOnDisk ==
    Succeeded => (IsFile(fs, final_executable(b)) /\ IsFile(fs, metadata_file(b)))

\* the part of C5 that a failed metadata generation cannot break: the
\* executable is in the output directory after a successful build.  Cleanup
\* breaks it when the output directory lies under the build root.
C5_ExecutableSurvivesCleanup ==
    Succeeded => IsFile(fs, final_executable(b))

\* the payload section of the record describes the configured payload file
PayloadSectionMatches ==
    /\ "payload" \in res.keys
    /\ res.meta.payload.source = b.payload_path
    /\ res.meta.payload.size = Len(fs0.files[<<b.payload_path>>].bytes)

\* C6 as stated: every successful build's record has a payload section, sized
\* as the payload file, exactly when a payload path is configured.
C6_PayloadSectionIffConfigured ==
    Succeeded =>
        IF b.payload_path # "" THEN PayloadSectionMatches ELSE "payload" \notin res.keys

\* C6: a successful build whose metadata generation did not fail returns a
\* record with a payload section, whose size is the byte length of the
\* payload file, exactly when a payload path is configured; the minimal
\* record of a failed metadata generation has no payload section.
C6_PayloadSectionOfFullRecord ==
    Succeeded =>
        IF "metadata" \in faults THEN "payload" \notin res.keys
        ELSE IF b.payload_path # "" THEN PayloadSectionMatches
        ELSE "payload" \notin res.keys

\* a successful windows build with a payload of the longest length, recorded in full
C6_Witness ==
    /\ Succeeded
    /\ "metadata" \notin faults
    /\ b.payload_path # ""
    /\ "payload" \in res.keys
    /\ res.meta.payload.size = MaxPayloadLen

\* the complete summary main() prints for a record
FullSummary(keys) ==
    <<"Build Summary:">> \o SummaryKeys
        \o (IF "payload" \in keys THEN <<"Payload Information:">> ELSE <<>>)
        \o <<"Build completed successfully!">>

\* C7: main() exits with status 0 and prints the build summary when build()
\* returned success, and exits with status 1 and prints the failure notice
\* when build() returned failure.
C7_ExitStatusFollowsBuild ==
    pc = "exited" =>
        IF res.success
        THEN exit = 0 /\ out = FullSummary(res.keys)
        ELSE exit = 1 /\ out = <<"Build failed!">>

\* C8: once the compile stage has returned success build() returns success:
\* the two remaining stages can always run, a failure inside metadata
\* generation yields the minimal record of exactly four keys, and a failure
\* inside cleanup changes nothing in the result.
C8_SuccessAfterCompile ==
    /\ (pc = "metadata" => ENABLED GenerateMetadata)
    /\ (pc = "cleanup" => ENABLED CleanUp)
    /\ Len(ran) >= 6 =>
          /\ res.hasMeta
          /\ res.keys = res.meta.keys
          /\ IF "metadata" \in faults
             THEN res.keys = {"build_id", "timestamp", "platform", "executable"}
             ELSE FullKeys \subseteq res.keys
    /\ (res.done /\ Len(ran) >= 6) => (res.success /\ ran = Stages)

\* a build that succeeded although metadata generation and cleanup both raised
C8_Witness ==
    /\ Succeeded
    /\ faults = {"metadata", "cleanup"}
    /\ res.keys = {"build_id", "timestamp", "platform", "executable"}

\* C9: the fallback is entered exactly when the primary obfuscation reported
\* failure, and once; the stage fails only when the fallback failed; a
\* failure of the primary path alone never aborts the build.
C9_FallbackIffPrimaryFails ==
    IF "obfuscate" \notin Range(ran)
    THEN prim = "none" /\ fb = "none" /\ fell = 0
    ELSE /\ prim \in {"ok", "failed"}
         /\ (fell = 1 <=> prim = "failed")
         /\ (fell = 0 <=> prim = "ok")
         /\ (fb = "none" <=> fell = 0)
         /\ ((Failed /\ Len(ran) = 4) <=> fb = "failed")

\* a build that went on to compile after the primary path failed and the fallback succeeded
C9_Witness ==
    /\ pc = "compile"
    /\ prim = "failed"
    /\ fb = "ok"
    /\ fell = 1

\* C10 as stated: whenever the fallback was entered it has produced the
\* obfuscated file, and decoding its blob gives the bytes of the customised
\* source file.
C10_FallbackBlobIsSourceFile ==
    (fb # "none" /\ Len(ran) = 4) =>
        /\ IsFile(fs, obfuscated_file(b))
        /\ UnpackBlob(fs.files[obfuscated_file(b)].bytes).ok
        /\ UnpackBlob(fs.files[obfuscated_file(b)].bytes).bytes = fs.files[modified_source(b)].bytes

\* C10: whenever the fallback returned success it has produced the
\* obfuscated file, and base85-decoding and decompressing its blob gives the
\* UTF-8 encoding of the customised source as the fallback read it in text
\* mode.
C10_FallbackBlobIsSourceText ==
    (fb = "ok" /\ Len(ran) = 4) =>
        /\ IsFile(fs, obfuscated_file(b))
        /\ ReadText(host, fs.files[modified_source(b)].bytes).ok
        /\ UnpackBlob(fs.files[obfuscated_file(b)].bytes).ok
        /\ UnpackBlob(fs.files[obfuscated_file(b)].bytes).bytes =
              Utf8Encode(ReadText(host, fs.files[modified_source(b)].bytes).text)

\* the fallback succeeded on a host that writes CRLF line ends: the blob
\* decodes to the source text, which is not the bytes of the source file
C10_Witness ==
    /\ fb = "ok"
    /\ Len(ran) = 4
    /\ host = "nt"
    /\ IsFile(fs, obfuscated_file(b))
    /\ UnpackBlob(fs.files[obfuscated_file(b)].bytes).ok
    /\ UnpackBlob(fs.files[obfuscated_file(b)].bytes).bytes # fs.files[modified_source(b)].bytes

\* the dependency check has returned success
DepsSucceeded == Len(ran) >= 2 \/ (ran = <<"deps">> /\ ~res.done)

\* C11 as stated: after the dependency check has run with a payload path that
\* names an existing file and platform windows, the payload is loaded and its
\* base64 text decodes to the bytes of the file.
C11_PayloadAlwaysLoaded ==
    (ran # <<>> /\ b.payload_path # "" /\ IsFile(fs0, <<b.payload_path>>) /\ b.platform = "windows") =>
        /\ b.payload_data.present
        /\ B64Decode(b.payload_data.b64) = [ok |-> TRUE, bytes |-> fs0.files[<<b.payload_path>>].bytes]

\* C11: when the dependency check returns success with a payload path
\* configured, the payload is loaded and its base64 text decodes to exactly
\* the bytes of the payload file; when the check returns failure with the
\* payload not yet read, or the read raising, the payload stays unloaded or
\* the build stops, and no later stage sees it.
C11_PayloadLoadedOnSuccess ==
    /\ (DepsSucceeded /\ b.payload_path # "") =>
          /\ b.platform = "windows"
          /\ b.payload_data.present
          /\ B64Decode(b.payload_data.b64) = [ok |-> TRUE, bytes |-> fs0.files[<<b.payload_path>>].bytes]
    /\ (DepsSucceeded /\ b.payload_path = "") => ~b.payload_data.present
    /\ (ran = <<"deps">> /\ Failed) => ~b.payload_data.present

\* a windows build past the dependency check with a payload of the longest length loaded
C11_Witness ==
    /\ DepsSucceeded
    /\ b.payload_path # ""
    /\ b.payload_data.present
    /\ Len(fs0.files[<<b.payload_path>>].bytes) = MaxPayloadLen
    /\ 0 \in Range(fs0.files[<<b.payload_path>>].bytes)
    /\ B64Decode(b.payload_data.b64).bytes = fs0.files[<<b.payload_path>>].bytes

\* the pair the specification gives for each obfuscation level
TimingPairs ==
    [basic |-> <<300, 30>>, medium |-> <<600, 60>>, advanced |-> <<1800, 120>>]

\* the marker lines of the customised source and of the source it was made from
ModifiedMarks == fs.files[modified_source(b)].marks

ShippedMarks == fs0.files[source_file_path].marks

\* C12: the customizer's (check-in, poll) pair is the pair of the obfuscation
\* level: (300, 30) for basic, (600, 60) for medium, (1800, 120) for
\* advanced.  A source that holds both marker lines comes out with exactly
\* that pair; a marker line that is absent is left as it was.
C12_TimingPairFollowsLevel ==
    pc = "obfuscate" =>
        /\ b.obfuscation_level \in DOMAIN TimingPairs
        /\ <<CheckInInterval(b.obfuscation_level), PollInterval(b.obfuscation_level)>>
              = TimingPairs[b.obfuscation_level]
        /\ (ShippedMarks.checkin = 300 /\ ShippedMarks.poll = 30) =>
              <<ModifiedMarks.checkin, ModifiedMarks.poll>> = TimingPairs[b.obfuscation_level]
        /\ ShippedMarks.checkin # 300 => ModifiedMarks.checkin = ShippedMarks.checkin
        /\ ShippedMarks.poll # 30 => ModifiedMarks.poll = ShippedMarks.poll

\* an advanced-level build whose customised source carries the advanced pair
C12_Witness ==
    /\ pc = "obfuscate"
    /\ b.obfuscation_level = "advanced"
    /\ ShippedMarks.checkin = 300
    /\ ModifiedMarks.checkin = 1800
    /\ ModifiedMarks.poll = 120

\* the extension the specification gives for each platform
Extensions == [windows |-> ".exe", macos |-> ".app", linux |-> ""]

\* build identifiers and timestamps of builds that could share a working directory
NameIds == {"zombie_0a", "zombie_0b"}

NameStamps == {"20260101000000", "20260101000001"}

\* two builders of the same command line on the same host, with the same
\* timestamp, name the same executable path; their metadata paths differ when
\* their build identifiers differ
SameStampCollides ==
    \A ts \in NameStamps : \A id1 \in NameIds : \A id2 \in NameIds :
        /\ final_executable(NewBuilder(argv, host, id1, ts))
              = final_executable(NewBuilder(argv, host, id2, ts))
        /\ id1 # id2 =>
              metadata_file(NewBuilder(argv, host, id1, ts))
                 # metadata_file(NewBuilder(argv, host, id2, ts))

\* C13: the executable is named zombie_<platform>_<timestamp><extension>, with
\* .exe for windows, .app for macos and nothing otherwise, independent of the
\* build identifier; the metadata file is named <build-id>_metadata.json.
\* Builds with the same platform, timestamp and output directory name the
\* same executable path and, with different identifiers, different metadata
\* paths; the copy into the output directory replaces whatever is there.
C13_OutputNames ==
    /\ SameStampCollides
    /\ pc # "start" =>
          /\ b.platform \in DOMAIN Extensions
          /\ final_executable(b) =
                Join(b.output_dir,
                     "zombie_" \o b.platform \o "_" \o b.build_timestamp \o Extensions[b.platform])
          /\ metadata_file(b) = Join(b.output_dir, b.build_id \o "_metadata.json")
    /\ (Len(ran) >= 6 /\ IsFile(fs, final_executable(b))) =>
          fs.files[final_executable(b)].by = b.build_id

\* a finished macos build whose executable and metadata file lie under these names
C13_Witness ==
    /\ Succeeded
    /\ b.platform = "macos"
    /\ IsFile(fs, Join(b.output_dir, "zombie_macos_" \o b.build_timestamp \o ".app"))
    /\ IsFile(fs, Join(b.output_dir, b.build_id \o "_metadata.json"))

\* C14: when a payload is loaded, the platform is windows and writing the
\* payload module fails during staging, the stager reports failure and
\* build() returns before the source customizer runs.
C14_PayloadWriteFailureAborts ==
    (Len(ran) = 2 /\ HasPayloadData(b) /\ b.platform = "windows" /\ ~IsFile(fs, payload_module)) =>
        Failed

\* the payload module went through every stage before metadata: synthesized
\* at staging, imported by the customised source, copied by the obfuscation
\* stage, and named in the descriptor's data files and hidden imports
PayloadEmbedded ==
    /\ IsFile(fs, payload_module)
    /\ fs.files[modified_source(b)].marks.payimp
    /\ IsFile(fs, Join(obfuscate_dir, PAYLOAD_MODULE_NAME))
    /\ PAYLOAD_MODULE_NAME \in descr.datas
    /\ descr.payload_import

\* C15: in a build that succeeds, the metadata record has a payload section
\* exactly when the payload module was synthesized, imported, copied through
\* obfuscation and named in the descriptor, for every payload file content.
\* Stated where the record exists and cleanup has not yet removed the files.
C15_StagesAgreeOnPayload ==
    pc = "cleanup" => ("payload" \in res.keys <=> PayloadEmbedded)

\* the part of C15 that neither a failed metadata generation nor a source
\* without marker lines can break; a zero-length payload file breaks it
C15_FullRecordAgreesOnPayload ==
    (pc = "cleanup" /\ "metadata" \notin faults /\ ShippedMarks = FullMarks) =>
        ("payload" \in res.keys <=> PayloadEmbedded)

\* a file this invocation made, or a copy of an input file, and not one that
\* a failed primary obfuscation attempt left behind
Fresh(c) ==
    /\ c.by \in {"input", b.build_id}
    /\ prim = "failed" => c.kind # "pyarmor"

\* the files staged in the compilation working directory
StagedForCompile == {p \in DOMAIN fs.files : Parent(p) = compile_dir}

\* C16: every file copied into the compilation working directory or named as
\* a data file in the descriptor was produced by this invocation: no file
\* left in the build root by an earlier invocation, and none left in the
\* obfuscation directory by a primary attempt that failed before the
\* fallback ran.  Stated when the compile stage has just returned.
C16_OnlyOwnFilesCompiled ==
    (descr.made /\ Len(ran) = 5) =>
        /\ \A p \in StagedForCompile : Fresh(fs.files[p])
        /\ \A n \in descr.datas :
              IsFile(fs, Join(compile_dir, n)) => Fresh(fs.files[Join(compile_dir, n)])

\* the part of C16 about earlier invocations alone
C16_NoFileOfEarlierInvocation ==
    (descr.made /\ Len(ran) = 5) =>
        \A p \in StagedForCompile : fs.files[p].by \in {"input", b.build_id}

\* the part of C16 about the failed primary attempt alone, in a working
\* directory no earlier invocation has used
C16_NoFileOfFailedPrimary ==
    (descr.made /\ Len(ran) = 5 /\ prim = "failed" /\ ~Exists(fs0, build_dir)) =>
        \A p \in StagedForCompile : fs.files[p].kind # "pyarmor"

\* the dependency check gives the same answer for a request whose UPX query
\* fails as for the same command line without the request
UpxFailureChangesNothing ==
    \A env \in DepsEnv :
        /\ check_dependencies([b EXCEPT !.use_upx = TRUE], fs, [env EXCEPT !.upx = FALSE]).ok
              = check_dependencies([b EXCEPT !.use_upx = FALSE], fs, env).ok
        /\ (env.py /\ env.pyarmor /\ env.pyinstaller) =>
              check_dependencies([b EXCEPT !.use_upx = TRUE], fs, [env EXCEPT !.upx = FALSE]).b
                 = check_dependencies([b EXCEPT !.use_upx = FALSE], fs, env).b

ToolQueryFailed == toolq \in {"pyarmor", "pyinstaller"}

\* C18 as stated: after a failed version query of the obfuscation tool or of
\* the packaging tool the remaining checks are still made, the UPX query
\* among them when UPX is requested, and failure is reported at the end.
C18_ToolFailureIsDeferred ==
    ToolQueryFailed => (Failed /\ (argv.upx => upxq # "unasked"))

\* C18: a failed version query of the obfuscation tool, or of the packaging
\* tool once the obfuscation tool was found, makes the dependency check
\* return failure at that point: the UPX query is not made and the flag keeps
\* its requested value, the payload is not loaded, and build() stops.
C18_ToolFailureReturnsAtOnce ==
    /\ ToolQueryFailed =>
          /\ Failed
          /\ ran = <<"deps">>
          /\ upxq = "unasked"
          /\ b = NewBuilder(argv, host, b.build_id, b.build_timestamp)
    /\ pc = "deps" =>
          \A env \in DepsEnv :
              (env.py /\ ~(env.pyarmor /\ env.pyinstaller)) =>
                  check_dependencies(b, fs, env) = [ok |-> FALSE, b |-> b]

\* UPX was requested, the obfuscation tool's query failed, and the flag is still on
C18_Witness ==
    /\ toolq = "pyarmor"
    /\ argv.upx
    /\ b.use_upx
    /\ Failed

----------------------------------------------------------------------------
(* Working directory *)

\* C19: when the primary obfuscation path or the compilation stage returns, on
\* whatever exit path (the switch not reached, the tool exiting non-zero, an
\* expected output missing, an exception, success), the process is back in the
\* directory it was in at entry to the stage; so it is in the base directory
\* between any two stages, and in particular when cleanup runs.
C19_WorkingDirectoryRestored ==
    /\ cwd = BaseDir
    /\ IsDir(fs, cwd)
    /\ pc = "obfuscate" =>
          \A fa \in FaultPoints(pyarmor_before_tool(b, fs, 0)) : pyarmor_cwd(b, fs, fa, cwd) = cwd
    /\ pc = "compile" =>
          \A fa \in FaultPoints(compile_before_tool(b, fs, 0)) : compile_cwd(b, fs, fa, cwd) = cwd

\* cleanup is about to run after both stages switched directory, the primary
\* path having failed inside its working directory
C19_Witness ==
    /\ pc = "cleanup"
    /\ prim = "failed"
    /\ went = {pyarmor_work_dir, compile_dir}

----------------------------------------------------------------------------
(* The builder's fields after construction *)

\* the fields of the configuration, the identity and (through the identity)
\* the derived paths, the UPX flag and the loaded payload set aside
Settled(x) == [x EXCEPT !.use_upx = FALSE, !.payload_data = NoPayloadData]

\* C20 as stated: once the builder is constructed no step changes any field of
\* the configuration (the UPX flag included), of the identity or of the layout.
C20_ConfigurationNeverChanges ==
    [][pc # "start" => /\ Settled(b') = Settled(b)
                       /\ b'.use_upx = b.use_upx]_vars

\* C20: once the builder is constructed no step changes a field of the
\* configuration, of the identity or of the layout, except that the dependency
\* check turns the UPX flag off when UPX was requested and its query fails; the
\* flag is never turned on and changes nowhere else.
C20_OnlyUpxFlagChanges ==
    [][pc # "start" => /\ Settled(b') = Settled(b)
                       /\ b'.use_upx # b.use_upx =>
                             /\ pc = "deps"
                             /\ b.use_upx /\ ~b'.use_upx
                             /\ upxq' = "missing"]_vars

\* a build that succeeded with a payload loaded and the requested UPX flag turned off
C20_Witness ==
    /\ Succeeded
    /\ argv.upx /\ ~b.use_upx
    /\ HasPayloadData(b)
    /\ Settled(b) = Settled(NewBuilder(argv, host, b.build_id, b.build_timestamp))

----------------------------------------------------------------------------
(* What the obfuscation stage hands to the compilation stage *)

\* C21: whenever the obfuscation stage has returned success, by the primary
\* path or by the fallback, the obfuscation directory holds the obfuscated
\* main file, the companion module and, when a payload is loaded for windows,
\* the payload module, each as a regular file; so the required-file check the
\* compilation stage starts with passes.
C21_ObfuscationOutputComplete ==
    pc = "compile" =>
        /\ RequiredFilesPresent(b, fs)
        /\ \A i \in 1..Len(files_to_check(b)) : IsFile(fs, files_to_check(b)[i])
        /\ CheckAndClearS(Begin(fs, 0), b).ok

\* the primary path succeeded with a payload module although the tool emitted
\* neither the companion module nor the payload module
C21_Witness ==
    /\ pc = "compile"
    /\ prim = "ok"
    /\ UsesPayloadModule(b)
    /\ ~Exists(fs, Join(pyarmor_dist_dir, DOS_MODULE_FILE))
    /\ ~Exists(fs, Join(pyarmor_dist_dir, PAYLOAD_MODULE_NAME))

----------------------------------------------------------------------------
(* The loaded payload *)

\* C22: the builder is constructed without a payload; a payload is held only
\* with a payload path configured, the file present when build() was entered
\* and the resolved platform windows; it is set only by the dependency check,
\* in a state where the existence check and the platform check pass, and no
\* later step sets, changes or clears it.
C22_PayloadSetOnlyByVerifiedCheck ==
    [][/\ pc = "start" => b'.payload_data = NoPayloadData
       /\ pc # "start" =>
             /\ b'.payload_data # NoPayloadData =>
                   /\ b'.payload_path # ""
                   /\ b'.platform = "windows"
                   /\ Exists(fs0, <<b'.payload_path>>)
             /\ b'.payload_data # b.payload_data =>
                   /\ pc = "deps"
                   /\ b.payload_data = NoPayloadData
                   /\ PayloadAllowed(b, fs)
                   /\ pc' = "prepare"]_vars

\* a build that finished with the payload the dependency check had loaded
C22_Witness ==
    /\ Succeeded
    /\ b.payload_data # NoPayloadData
    /\ b.payload_path # ""
    /\ b.platform = "windows"

----------------------------------------------------------------------------
(* The agent identifier of the metadata record *)

\* the identifier line of the customised source and of the staged input
IdLine(x, f) == f.files[modified_source(x)].marks.zid

InputIdLine(f) == f.files[Join(prep_dir, SOURCE_FILE)].marks.zid

\* the metadata stage can open and read the customised source
IdReadable(x, f, fa) == ReadS(Begin(f, fa), modified_source(x)).ok

UnknownId(x) == "unknown_" \o x.build_id

\* C23 as stated: in a full record the agent identifier is the baked one
\* whenever the input held the dynamic expression, it is unknown_<build id>
\* when the customised source holds no baked identifier, and the record
\* carries the build identifier.
C23_IdentifierAlwaysRecovered ==
    (pc = "cleanup" /\ res.keys # MinimalKeys) =>
        /\ res.meta.build_id = b.build_id
        /\ InputIdLine(fs) = "expr" => res.meta.zombie_id = IdLine(b, fs)
        /\ IdLine(b, fs) \notin ZombieIds => res.meta.zombie_id = UnknownId(b)

\* C23: the customiser bakes an identifier exactly when the input holds the
\* dynamic expression.  In a full record the agent identifier is the baked
\* one when the metadata stage could read the customised source and found it
\* there; it is unknown_<build id> when the source holds no baked identifier
\* or could not be read.  Every record, full or minimal, carries the build
\* identifier.
C23_IdentifierRecoveredIfReadable ==
    /\ pc = "metadata" =>
          /\ (IdLine(b, fs) \in ZombieIds) = (InputIdLine(fs) = "expr")
          /\ \A fa \in FaultPoints(generate_metadata(b, fs, 0)) :
                LET r == generate_metadata(b, fs, fa)
                IN  /\ r.meta.build_id = b.build_id
                    /\ r.ok => r.meta.zombie_id =
                                  IF IdReadable(b, fs, fa) /\ IdLine(b, fs) \in ZombieIds
                                  THEN IdLine(b, fs)
                                  ELSE UnknownId(b)
    /\ (pc = "cleanup" /\ res.keys # MinimalKeys) =>
          /\ res.meta.build_id = b.build_id
          /\ res.meta.zombie_id \in {IdLine(b, fs), UnknownId(b)}
          /\ IdLine(b, fs) \notin ZombieIds => res.meta.zombie_id = UnknownId(b)

\* a full record carrying the identifier the customiser baked
C23_Witness ==
    /\ pc = "cleanup"
    /\ res.keys # MinimalKeys
    /\ InputIdLine(fs) = "expr"
    /\ res.meta.zombie_id \in ZombieIds
    /\ res.meta.zombie_id = IdLine(b, fs)
    /\ res.meta.build_id = b.build_id

====
